---- MODULE Spec2Model ----
(***************************************************************************)
(* Model of server/src/scripts/extract_tables.py: the function             *)
(* extract_tables_from_pdf and the script's __main__ block.                *)
(*                                                                         *)
(* The pdfplumber library is the environment.  A file on disk is either    *)
(* unreadable (pdfplumber.open raises), corrupt (pdf.pages raises), or a   *)
(* sequence of pages; page.extract_tables() either raises or returns a     *)
(* list of tables; a table is None or a list of rows.                      *)
(*                                                                         *)
(* Spec      : one run of the script (lines 48-55).                        *)
(* SpecTwice : a caller that invokes extract_tables_from_pdf twice on the  *)
(*             same file (lines 10-46 executed twice).                     *)
(***************************************************************************)
EXTENDS Integers, Sequences, FiniteSets, TLC

VARIABLES
    argv,         \* sys.argv
    doc,          \* what pdfplumber finds at the path
    pc,           \* position of the program
    ret_to,       \* where extract_tables_from_pdf returns to
    tables_data,  \* line 12: the accumulator
    page_num,     \* line 16: enumerate(pdf.pages, start=1)
    tables,       \* line 18: page.extract_tables()
    table_idx,    \* line 20: position in `tables` (1-based)
    open_docs,    \* number of Documents currently open
    opened,       \* number of Documents ever opened
    calls,        \* number of calls of extract_tables_from_pdf
    exc,          \* str(e) of the exception in flight, "" if none
    returned,     \* the envelopes returned so far, in order
    stdout,       \* what has been printed
    exit_codes    \* <<>> while the process runs, <<code>> once it has exited

vars == <<argv, doc, pc, ret_to, tables_data, page_num, tables, table_idx,
          open_docs, opened, calls, exc, returned, stdout, exit_codes>>

-----------------------------------------------------------------------------
(* Bounds of the model *)

MaxPages == 2    \* pages in a document
MaxTables == 3   \* tables detected in a whole document
MaxRows == 2     \* rows in a table

-----------------------------------------------------------------------------
(* The environment: files and what the detector returns for them *)

\* Row i of a detected table; the rows of a table are pairwise distinct.
SampleRow(i) == <<"cell" \o ToString(i), "x">>

\* Python's None as a table, and a list of n rows.
NoneTable == [is_none |-> TRUE, data |-> <<>>]
ListTable(n) == [is_none |-> FALSE, data |-> [i \in 1..n |-> SampleRow(i)]]

TableSet == {NoneTable} \cup {ListTable(n) : n \in 0..MaxRows}

\* A page on which extract_tables() raises, and a page that yields `ts`.
FailPage == [fails |-> TRUE, tables |-> <<>>]
OkPage(ts) == [fails |-> FALSE, tables |-> ts]

PageSet(budget) ==
    {FailPage} \cup
    {OkPage(ts) : ts \in UNION {[1..n -> TableSet] : n \in 0..budget}}

\* The sequences of exactly p pages that hold at most `budget` tables in all.
RECURSIVE PageSeqs(_, _)
PageSeqs(p, budget) ==
    IF p = 0 THEN {<<>>}
    ELSE UNION {{<<pg>> \o rest :
                    rest \in PageSeqs(p - 1, budget - Len(pg.tables))} :
                pg \in PageSet(budget)}

DocSet ==
    {[kind |-> "unreadable", pages |-> <<>>],
     [kind |-> "corrupt", pages |-> <<>>]} \cup
    {[kind |-> "ok", pages |-> ps] :
        ps \in UNION {PageSeqs(p, MaxTables) : p \in 0..MaxPages}}

ArgvSet == {<<"extract_tables.py">>, <<"extract_tables.py", "doc.pdf">>}

-----------------------------------------------------------------------------
(* Pure pieces of extract_tables_from_pdf *)

\* Python truthiness of `table`: None and [] are falsy.
Truthy(table) == ~table.is_none /\ Len(table.data) > 0

IsNotNone(table) == ~table.is_none
\* Line 21: `if table and len(table) > 0` (the `and` short-circuits on None).
IsNonEmpty(table) == Truthy(table) /\ Len(table.data) > 0

\* Line 23: headers = table[0] if table else []
Headers(table) == IF Truthy(table) THEN table.data[1] ELSE <<>>

RowsUnsliced(table) == IF ~table.is_none THEN table.data ELSE <<>>
\* Line 24: rows = table[1:] if len(table) > 1 else []
Rows(table) ==
    IF Len(table.data) > 1 THEN SubSeq(table.data, 2, Len(table.data)) ELSE <<>>

EnumerateFromZero(i) == i - 1
\* Line 20: enumerate(tables, start=1) pairs the i-th element with i.
EnumerateIndex(i) == i

\* Lines 26-32
TableRecord(pn, tn, table) ==
    [page |-> pn, table_number |-> tn, headers |-> Headers(table),
     rows |-> Rows(table), raw_data |-> table.data]

PrependRecord(list, rec) == <<rec>> \o list
\* Line 33: tables_data.append(table_data)
AppendRecord(list, rec) == Append(list, rec)

\* Lines 35-39
SuccessEnvelope(td) ==
    [success |-> TRUE, tables |-> td, table_count |-> Len(td)]

FailureEnvelopePartial(e) ==
    [success |-> FALSE, error |-> e, tables |-> tables_data]
FailureEnvelopeWithCount(e) ==
    [success |-> FALSE, error |-> e, tables |-> <<>>, table_count |-> 0]
\* Lines 42-46
FailureEnvelope(e) == [success |-> FALSE, error |-> e, tables |-> <<>>]

NoPathEnvelopeWithTables ==
    [success |-> FALSE, error |-> "No PDF path provided", tables |-> <<>>]
\* Line 50: the object printed when no path is given
NoPathEnvelope == [success |-> FALSE, error |-> "No PDF path provided"]

\* json.dumps(obj) / json.dumps(obj, indent=2): the text is determined by the
\* object and the indent, and texts with different indents differ.
json_dumps(obj, indent) == [text_of |-> obj, indent |-> indent]

ExitStatusByResult(result) == IF result.success THEN 0 ELSE 1
\* The script falls off its end after line 55: exit status 0.
ExitStatusAtEnd(result) == 0

-----------------------------------------------------------------------------
(* Initial states *)

InitLocals ==
    /\ tables_data = <<>>
    /\ page_num = 0
    /\ tables = <<>>
    /\ table_idx = 0
    /\ open_docs = 0
    /\ opened = 0
    /\ calls = 0
    /\ exc = ""
    /\ returned = <<>>
    /\ stdout = <<>>
    /\ exit_codes = <<>>

\* The script starts at line 49 with some argv and some file.
Init ==
    /\ argv \in ArgvSet
    /\ doc \in DocSet
    /\ pc = "main"
    /\ ret_to = "print"
    /\ InitLocals

\* A caller about to invoke extract_tables_from_pdf on some file.
InitTwice ==
    /\ argv = <<"extract_tables.py", "doc.pdf">>
    /\ doc \in DocSet
    /\ pc = "caller"
    /\ ret_to = "caller"
    /\ InitLocals

-----------------------------------------------------------------------------
(* __main__, lines 48-55 *)

\* Lines 49-51: no path argument.
MainNoArg ==
    /\ pc = "main"
    /\ Len(argv) < 2
    /\ stdout' = Append(stdout, json_dumps(NoPathEnvelope, "None"))
    /\ exit_codes' = <<1>>
    /\ pc' = "done"
    /\ UNCHANGED <<argv, doc, ret_to, tables_data, page_num, tables, table_idx,
                   open_docs, opened, calls, exc, returned>>

\* Lines 53-54: pdf_path = sys.argv[1]; call extract_tables_from_pdf.
MainCall ==
    /\ pc = "main"
    /\ ~(Len(argv) < 2)
    /\ pc' = "enter"
    /\ UNCHANGED <<argv, doc, ret_to, tables_data, page_num, tables, table_idx,
                   open_docs, opened, calls, exc, returned, stdout, exit_codes>>

\* Line 55: print(json.dumps(result, indent=2)), then the script ends.
MainPrint ==
    /\ pc = "print"
    /\ LET result == returned[Len(returned)] IN
        /\ stdout' = Append(stdout, json_dumps(result, "2"))
        /\ exit_codes' = <<ExitStatusAtEnd(result)>>
    /\ pc' = "done"
    /\ UNCHANGED <<argv, doc, ret_to, tables_data, page_num, tables, table_idx,
                   open_docs, opened, calls, exc, returned>>

-----------------------------------------------------------------------------
(* extract_tables_from_pdf, lines 10-46 *)

EnterKeepAccumulator ==
    /\ pc = "enter"
    /\ calls' = calls + 1
    /\ page_num' = 0
    /\ tables' = <<>>
    /\ table_idx' = 0
    /\ exc' = ""
    /\ pc' = "open"
    /\ UNCHANGED <<argv, doc, ret_to, tables_data, open_docs, opened, returned,
                   stdout, exit_codes>>
\* Lines 10-12: a fresh frame; tables_data = [].
Enter ==
    /\ pc = "enter"
    /\ calls' = calls + 1
    /\ tables_data' = <<>>
    /\ page_num' = 0
    /\ tables' = <<>>
    /\ table_idx' = 0
    /\ exc' = ""
    /\ pc' = "open"
    /\ UNCHANGED <<argv, doc, ret_to, open_docs, opened, returned, stdout,
                   exit_codes>>

\* Line 15: with pdfplumber.open(pdf_path) as pdf.  If open raises, no
\* Document was acquired and control goes to the except clause.
Open ==
    /\ pc = "open"
    /\ IF doc.kind = "unreadable"
       THEN /\ exc' = "cannot open file"
            /\ pc' = "except"
            /\ UNCHANGED <<open_docs, opened>>
       ELSE /\ open_docs' = open_docs + 1
            /\ opened' = opened + 1
            /\ pc' = "pages"
            /\ UNCHANGED exc
    /\ UNCHANGED <<argv, doc, ret_to, tables_data, page_num, tables, table_idx,
                   calls, returned, stdout, exit_codes>>

\* Line 16: pdf.pages is evaluated; a failure leaves the with block.
Pages ==
    /\ pc = "pages"
    /\ IF doc.kind = "corrupt"
       THEN /\ exc' = "cannot read pages"
            /\ pc' = "with_exit_exc"
       ELSE /\ pc' = "page_loop"
            /\ UNCHANGED exc
    /\ page_num' = 0
    /\ UNCHANGED <<argv, doc, ret_to, tables_data, tables, table_idx, open_docs,
                   opened, calls, returned, stdout, exit_codes>>

\* Line 16: the for loop takes the next page, or ends and leaves the with block.
NextPage ==
    /\ pc = "page_loop"
    /\ IF page_num < Len(doc.pages)
       THEN /\ page_num' = page_num + 1
            /\ pc' = "extract"
       ELSE /\ pc' = "with_exit"
            /\ UNCHANGED page_num
    /\ UNCHANGED <<argv, doc, ret_to, tables_data, tables, table_idx, open_docs,
                   opened, calls, exc, returned, stdout, exit_codes>>

\* Line 18: tables = page.extract_tables()
ExtractTables ==
    /\ pc = "extract"
    /\ LET page == doc.pages[page_num] IN
        IF page.fails
        THEN /\ exc' = "table detection failed"
             /\ pc' = "with_exit_exc"
             /\ UNCHANGED <<tables, table_idx>>
        ELSE /\ tables' = page.tables
             /\ table_idx' = 0
             /\ pc' = "table_loop"
             /\ UNCHANGED exc
    /\ UNCHANGED <<argv, doc, ret_to, tables_data, page_num, open_docs, opened,
                   calls, returned, stdout, exit_codes>>

\* Lines 20-33: one iteration of the inner loop, or its end.
NextTable ==
    /\ pc = "table_loop"
    /\ IF table_idx < Len(tables)
       THEN LET i == table_idx + 1
                table == tables[i]
                table_num == EnumerateIndex(i)
            IN  /\ table_idx' = i
                /\ tables_data' =
                     IF IsNonEmpty(table)
                     THEN AppendRecord(tables_data,
                                       TableRecord(page_num, table_num, table))
                     ELSE tables_data
                /\ UNCHANGED pc
       ELSE /\ pc' = "page_loop"
            /\ UNCHANGED <<table_idx, tables_data>>
    /\ UNCHANGED <<argv, doc, ret_to, page_num, tables, open_docs, opened, calls,
                   exc, returned, stdout, exit_codes>>

WithExitLeakOnError ==
    /\ pc \in {"with_exit", "with_exit_exc"}
    /\ open_docs' = IF pc = "with_exit" THEN open_docs - 1 ELSE open_docs
    /\ pc' = IF pc = "with_exit" THEN "return" ELSE "except"
    /\ UNCHANGED <<argv, doc, ret_to, tables_data, page_num, tables, table_idx,
                   opened, calls, exc, returned, stdout, exit_codes>>
\* Line 15: leaving the with block closes the Document, both when the body
\* ends normally (then line 35 runs) and when an exception passes through
\* (then the except clause runs).
WithExit ==
    /\ pc \in {"with_exit", "with_exit_exc"}
    /\ open_docs' = open_docs - 1
    /\ pc' = IF pc = "with_exit" THEN "return" ELSE "except"
    /\ UNCHANGED <<argv, doc, ret_to, tables_data, page_num, tables, table_idx,
                   opened, calls, exc, returned, stdout, exit_codes>>

\* Lines 35-39
ReturnSuccess ==
    /\ pc = "return"
    /\ returned' = Append(returned, SuccessEnvelope(tables_data))
    /\ pc' = ret_to
    /\ UNCHANGED <<argv, doc, ret_to, tables_data, page_num, tables, table_idx,
                   open_docs, opened, calls, exc, stdout, exit_codes>>

\* Lines 41-46: except Exception as e
ReturnFailure ==
    /\ pc = "except"
    /\ returned' = Append(returned, FailureEnvelope(exc))
    /\ pc' = ret_to
    /\ UNCHANGED <<argv, doc, ret_to, tables_data, page_num, tables, table_idx,
                   open_docs, opened, calls, exc, stdout, exit_codes>>

\* A caller invokes extract_tables_from_pdf, and again once it has returned.
CallerInvoke ==
    /\ pc = "caller"
    /\ Len(returned) < 2
    /\ pc' = "enter"
    /\ UNCHANGED <<argv, doc, ret_to, tables_data, page_num, tables, table_idx,
                   open_docs, opened, calls, exc, returned, stdout, exit_codes>>

-----------------------------------------------------------------------------

Extract ==
    \/ Enter
    \/ Open
    \/ Pages
    \/ NextPage
    \/ ExtractTables
    \/ NextTable
    \/ WithExit
    \/ ReturnSuccess
    \/ ReturnFailure

Next ==
    \/ MainNoArg
    \/ MainCall
    \/ MainPrint
    \/ Extract

NextTwice ==
    \/ CallerInvoke
    \/ Extract

Spec == Init /\ [][Next]_vars

SpecTwice == InitTwice /\ [][NextTwice]_vars

-----------------------------------------------------------------------------
(* Vocabulary of the properties *)

\* Opening the file, reading its pages or detecting tables on a page raises.
DocFails(d) == d.kind # "ok" \/ \E p \in 1..Len(d.pages) : d.pages[p].fails

\* The positions, in the detector's list for page p, of the tables that have
\* at least one row.
NonEmptyPositions(d, p) ==
    {j \in 1..Len(d.pages[p].tables) :
        /\ ~d.pages[p].tables[j].is_none
        /\ d.pages[p].tables[j].data # <<>>}

\* The sum over the pages of the number of non-empty tables detected.
TotalNonEmpty(d) ==
    Cardinality(UNION {{<<p, j>> : j \in NonEmptyPositions(d, p)} :
                       p \in 1..Len(d.pages)})

\* The table numbers of the records of page p in a list of records.
NumbersOnPage(list, p) ==
    {list[i].table_number : i \in {k \in 1..Len(list) : list[k].page = p}}

StrictlyOrdered(list) ==
    \A i \in 1..(Len(list) - 1) :
        \/ list[i].page < list[i + 1].page
        \/ /\ list[i].page = list[i + 1].page
           /\ list[i].table_number < list[i + 1].table_number

RecordShape(rec) ==
    /\ rec.raw_data # <<>> => rec.raw_data = <<rec.headers>> \o rec.rows
    /\ rec.raw_data = <<>> => rec.headers = <<>> /\ rec.rows = <<>>

IsSuccessShape(env) ==
    /\ DOMAIN env = {"success", "tables", "table_count"}
    /\ env.success = TRUE
    /\ env.table_count = Len(env.tables)

IsFailureShape(env) ==
    /\ DOMAIN env = {"success", "error", "tables"}
    /\ env.success = FALSE
    /\ env.tables = <<>>

\* extract_tables_from_pdf is not running: every call made has returned.
Returned == pc \in {"main", "print", "done", "caller"}

-----------------------------------------------------------------------------
(* C1: when opening the document, enumerating its pages or detecting tables *)
(* on a page fails, the envelope returned is {success: false, error: msg,   *)
(* tables: []}; its tables list is empty even when records of earlier pages *)
(* or tables had been accumulated before the failure.                       *)
C1_FailureReturnsNoTables ==
    \A i \in 1..Len(returned) :
        DocFails(doc) =>
            /\ returned[i].success = FALSE
            /\ DOMAIN returned[i] = {"success", "error", "tables"}
            /\ returned[i].error # ""
            /\ returned[i].tables = <<>>

\* A failure was returned after records had been accumulated.
C1_Witness ==
    /\ pc = "done"
    /\ Len(returned) = 1
    /\ DocFails(doc)
    /\ Len(tables_data) >= 2
    /\ returned[1].success = FALSE

(* C2: for a document whose detection raises no failure the envelope has    *)
(* success = true and table_count = length of tables = the number of        *)
(* non-empty tables detected over all pages; with no detected table it is   *)
(* {success: true, tables: [], table_count: 0}.                             *)
C2_CountIsSumOfNonEmpty ==
    \A i \in 1..Len(returned) :
        ~DocFails(doc) =>
            /\ returned[i].success = TRUE
            /\ returned[i].table_count = Len(returned[i].tables)
            /\ returned[i].table_count = TotalNonEmpty(doc)
            /\ TotalNonEmpty(doc) = 0 =>
                 returned[i] = [success |-> TRUE, tables |-> <<>>, table_count |-> 0]

\* A two-page document with an empty table among three detected ones.
C2_Witness ==
    /\ pc = "done"
    /\ Len(returned) = 1
    /\ ~DocFails(doc)
    /\ Len(doc.pages) = 2
    /\ \E p \in 1..Len(doc.pages) :
          Len(doc.pages[p].tables) > Cardinality(NonEmptyPositions(doc, p))
    /\ returned[1].table_count = 2

(* C3: the list of records is strictly increasing in (page, table_number),  *)
(* lexicographically, in every success envelope and at every point of the   *)
(* extraction loop.                                                         *)
C3_StrictlyOrdered ==
    /\ StrictlyOrdered(tables_data)
    /\ \A i \in 1..Len(returned) :
          returned[i].success => StrictlyOrdered(returned[i].tables)

\* Records on two pages, the later page's table number being the smaller.
C3_Witness ==
    /\ pc = "done"
    /\ Len(returned) = 1
    /\ returned[1].success
    /\ \E i \in 1..(Len(returned[1].tables) - 1) :
          /\ returned[1].tables[i].page < returned[1].tables[i + 1].page
          /\ returned[1].tables[i].table_number
                > returned[1].tables[i + 1].table_number

(* C4: every record appended has raw_data = [headers] + rows when raw_data  *)
(* is non-empty (rows is empty for a one-row table), and headers = [] and   *)
(* rows = [] when raw_data = [].                                            *)
C4_RawDataIsHeadersPlusRows ==
    /\ \A i \in 1..Len(tables_data) : RecordShape(tables_data[i])
    /\ \A i \in 1..Len(tables_data) :
          Len(tables_data[i].raw_data) = 1 => tables_data[i].rows = <<>>
    /\ \A i \in 1..Len(returned) :
          returned[i].success =>
              \A k \in 1..Len(returned[i].tables) :
                  RecordShape(returned[i].tables[k])

\* A one-row table and a table with body rows were both recorded.
C4_Witness ==
    /\ pc = "done"
    /\ Len(returned) = 1
    /\ returned[1].success
    /\ \E k \in 1..Len(returned[1].tables) :
          Len(returned[1].tables[k].raw_data) = 1
    /\ \E k \in 1..Len(returned[1].tables) :
          Len(returned[1].tables[k].rows) >= 1

(* C5: whenever an envelope is returned, every Document opened by that      *)
(* invocation has been closed: it is closed on every exit path, before the  *)
(* envelope is built, and at most one Document is open at any time.         *)
C5_DocumentReleased ==
    /\ open_docs \in {0, 1}
    /\ pc \in {"return", "except"} => open_docs = 0
    /\ Returned => open_docs = 0
    /\ opened <= calls

\* The except clause is reached after a Document was opened and closed.
C5_Witness ==
    /\ pc = "except"
    /\ opened = 1
    /\ open_docs = 0
    /\ tables_data # <<>>

(* C6: the exit code is 1 exactly when no path argument is given; with a    *)
(* path the process prints one envelope and exits with code 0, whether the  *)
(* extraction succeeded or failed, and never stops anywhere else.           *)
C6_ExitCode ==
    /\ pc # "done" => exit_codes = <<>> /\ ENABLED Next
    /\ pc = "done" =>
          /\ Len(exit_codes) = 1
          /\ exit_codes[1] = 1 <=> Len(argv) < 2
          /\ Len(argv) >= 2 =>
                /\ exit_codes = <<0>>
                /\ Len(returned) = 1
                /\ stdout = <<json_dumps(returned[1], "2")>>

\* The script ends with status 0 after a failed extraction.
C6_Witness ==
    /\ pc = "done"
    /\ Len(argv) >= 2
    /\ returned[1].success = FALSE
    /\ exit_codes = <<0>>

(* C7: as claimed: on each page the table numbers of the emitted records    *)
(* are exactly 1..k, k being the number of non-empty tables of the page.    *)
C7_NumbersAreCompact ==
    \A i \in 1..Len(returned) :
        returned[i].success =>
            \A p \in 1..Len(doc.pages) :
                NumbersOnPage(returned[i].tables, p)
                    = 1..Cardinality(NonEmptyPositions(doc, p))

(* C7, amended: numbering restarts at 1 on every page and follows the       *)
(* detector's list: the table numbers of a page's records are the positions *)
(* of its non-empty tables in that list, so an empty table before a         *)
(* non-empty one leaves a gap.                                              *)
C7_NumbersAreDetectorPositions ==
    /\ \A i \in 1..Len(tables_data) :
          tables_data[i].table_number
              \in NonEmptyPositions(doc, tables_data[i].page)
    /\ \A i \in 1..Len(returned) :
          returned[i].success =>
              \A p \in 1..Len(doc.pages) :
                  NumbersOnPage(returned[i].tables, p) = NonEmptyPositions(doc, p)

\* An empty table comes first on a page and the next one is recorded as 2.
C7_Witness ==
    /\ pc = "done"
    /\ Len(returned) = 1
    /\ returned[1].success
    /\ \E p \in 1..Len(doc.pages) :
          /\ Len(doc.pages[p].tables) >= 2
          /\ NonEmptyPositions(doc, p) = {2}
          /\ NumbersOnPage(returned[1].tables, p) = {2}

(* C8: every envelope returned has one of two shapes, {success, tables,     *)
(* table_count} with success and table_count = length of tables, or         *)
(* {success, error, tables} with success false and tables empty; each       *)
(* invocation ends by returning exactly one envelope.                       *)
C8_OneOfTwoShapes ==
    /\ \A i \in 1..Len(returned) :
          /\ IsSuccessShape(returned[i]) \/ IsFailureShape(returned[i])
          /\ ~(IsSuccessShape(returned[i]) /\ IsFailureShape(returned[i]))
    /\ Len(returned) <= calls
    /\ Returned => Len(returned) = calls

\* A corrupt file: the failure shape is returned.
C8_Witness ==
    /\ pc = "done"
    /\ doc.kind = "corrupt"
    /\ Len(returned) = 1
    /\ IsFailureShape(returned[1])

(* C9: without a path argument the error is detected before any extraction: *)
(* no Document is opened, extract_tables_from_pdf is not called, and the    *)
(* only output is {"success": false, "error": "No PDF path provided"},      *)
(* which has no tables key and no table_count key.                          *)
C9_MissingArgument ==
    Len(argv) < 2 =>
        /\ pc \in {"main", "done"}
        /\ opened = 0
        /\ calls = 0
        /\ returned = <<>>
        /\ pc = "main" => stdout = <<>>
        /\ pc = "done" =>
              /\ Len(stdout) = 1
              /\ stdout[1].text_of =
                    [success |-> FALSE, error |-> "No PDF path provided"]
              /\ DOMAIN stdout[1].text_of = {"success", "error"}

\* The script has ended for want of an argument.
C9_Witness ==
    /\ pc = "done"
    /\ Len(argv) < 2
    /\ exit_codes = <<1>>

(* C10: two invocations on the same unmodified file return identical        *)
(* envelopes; the accumulator starts empty on every call, so the second     *)
(* result does not depend on the first call.                                *)
C10_SameResultTwice ==
    /\ pc = "open" => tables_data = <<>>
    /\ Len(returned) = 2 => returned[1] = returned[2]

\* The second call has returned a success envelope with records.
C10_Witness ==
    /\ pc = "caller"
    /\ Len(returned) = 2
    /\ returned[2].success
    /\ returned[2].table_count >= 2

====
